---- MODULE Spec2Model ----
(***************************************************************************)
(* The voice-assistant skill backend of src/main.py: the texts table, the  *)
(* four store operations, clean_text, calculate_similarity,                *)
(* create_response and handler.                                            *)
(*                                                                         *)
(* A Python str is a sequence of Unicode code points (integers); Python's  *)
(* None, where a str is expected, is the one-element sequence None, which  *)
(* is not a string of code points.  Session and user identifiers are       *)
(* opaque and are TLA+ strings.                                            *)
(***************************************************************************)
EXTENDS Integers, Sequences, FiniteSets

\* ------------------------------------------------------------------------
\* Bounds of the model
\* ------------------------------------------------------------------------

\* Utterances hold every string of at most MaxLen code points of Alphabet,
\* besides the strings around the reset keyword.
MaxLen == 1

\* a letter, a space and a punctuation mark ("a", " ", "!")
Alphabet == {97, 32, 33}

Sessions == {"s1", "s2"}

Users == {"u1", "u2"}

\* ------------------------------------------------------------------------
\* String literals of src/main.py, as code points
\* ------------------------------------------------------------------------

None == << -1 >>

\* src/main.py:208  the literal the lowercased utterance is compared with (8 code points)
ResetKeyword ==
    << 1089, 1073, 1088, 1086, 1089, 1080, 1090, 1100 >>

\* the title of the button every response carries (8 code points)
ButtonTitle ==
    << 1057, 1073, 1088, 1086, 1089, 1080, 1090, 1100 >>

\* src/main.py:203 (52 code points)
GreetingText ==
    << 1047, 1076, 1088, 1072, 1074, 1089, 1090, 1074, 1091, 1081, 1090, 1077,
       44, 32, 1074, 1074, 1077, 1076, 1080, 1090, 1077, 32, 1090, 1077, 1082,
       1089, 1090, 44, 32, 1082, 1086, 1090, 1086, 1088, 1099, 1081, 32, 1093,
       1086, 1090, 1080, 1090, 1077, 32, 1074, 1099, 1091, 1095, 1080, 1090,
       1100, 46 >>

\* src/main.py:210 (38 code points)
ResetDoneText ==
    << 1058, 1077, 1082, 1089, 1090, 32, 1073, 1099, 1083, 32, 1091, 1076,
       1072, 1083, 1105, 1085, 46, 32, 1042, 1074, 1077, 1076, 1080, 1090,
       1077, 32, 1085, 1086, 1074, 1099, 1081, 32, 1090, 1077, 1082, 1089,
       1090, 46 >>

\* src/main.py:219 (69 code points)
SavedText ==
    << 1054, 1088, 1080, 1075, 1080, 1085, 1072, 1083, 1100, 1085, 1099, 1081,
       32, 1090, 1077, 1082, 1089, 1090, 32, 1089, 1086, 1093, 1088, 1072,
       1085, 1105, 1085, 46, 32, 1058, 1077, 1087, 1077, 1088, 1100, 32, 1088,
       1072, 1089, 1089, 1082, 1072, 1078, 1080, 1090, 1077, 32, 1077, 1075,
       1086, 44, 32, 1082, 1072, 1082, 32, 1074, 1099, 32, 1079, 1072, 1087,
       1086, 1084, 1085, 1080, 1083, 1080, 46 >>

\* src/main.py:236 (35 code points)
ApologyText ==
    << 1055, 1088, 1086, 1080, 1079, 1086, 1096, 1083, 1072, 32, 1086, 1096,
       1080, 1073, 1082, 1072, 46, 32, 1055, 1086, 1087, 1088, 1086, 1073,
       1091, 1081, 1090, 1077, 32, 1089, 1085, 1086, 1074, 1072, 46 >>

\* src/main.py:227 (20 code points)
ResultHead ==
    << 1055, 1088, 1086, 1094, 1077, 1085, 1090, 32, 1089, 1086, 1074, 1087,
       1072, 1076, 1077, 1085, 1080, 1103, 58, 32 >>

\* src/main.py:227-228 (20 code points)
ResultMid ==
    << 37, 10, 10, 1054, 1088, 1080, 1075, 1080, 1085, 1072, 1083, 32, 1090,
       1077, 1082, 1089, 1090, 1072, 58, 32 >>

\* src/main.py:228-229 (13 code points)
ResultTail ==
    << 10, 10, 1042, 1072, 1096, 32, 1090, 1077, 1082, 1089, 1090, 58, 32 >>

\* ------------------------------------------------------------------------
\* Strings
\* ------------------------------------------------------------------------

RECURSIVE StringsOfLen(_)
StringsOfLen(n) ==
    IF n = 0 THEN {<< >>}
    ELSE {Append(s, c) : s \in StringsOfLen(n - 1), c \in Alphabet}

\* The strings a request can carry as its utterance (and so the strings the
\* table can hold): the short strings over Alphabet, the reset keyword, the
\* button title, the keyword in capitals, the keyword followed by "!",
\* preceded by a space, and with its last letter missing.
Utterances ==
    UNION {StringsOfLen(n) : n \in 0..MaxLen}
      \cup {ResetKeyword, ButtonTitle,
            [i \in 1..Len(ResetKeyword) |-> ResetKeyword[i] - 32],
            Append(ResetKeyword, 33),
            <<32>> \o ResetKeyword,
            SubSeq(ResetKeyword, 1, Len(ResetKeyword) - 1)}

\* str.lower() of one code point: A-Z and the Cyrillic capitals
\* U+0410..U+042F are 32 below their small letters, the Cyrillic capitals
\* U+0400..U+040F (among them U+0401, the capital of U+0451) are 80 below.
LowerChar(c) ==
    IF (c >= 65 /\ c <= 90) \/ (c >= 1040 /\ c <= 1071) THEN c + 32
    ELSE IF c >= 1024 /\ c <= 1039 THEN c + 80
    ELSE c

\* str.lower()
Lower(s) == [i \in 1..Len(s) |-> LowerChar(s[i])]

\* str.isalnum() of one code point: digits, Latin and Cyrillic letters
IsAlnum(c) ==
    \/ c >= 48 /\ c <= 57
    \/ c >= 65 /\ c <= 90
    \/ c >= 97 /\ c <= 122
    \/ c >= 1024 /\ c <= 1119

\* str.isspace() of one code point
IsSpace(c) == (c >= 9 /\ c <= 13) \/ (c >= 28 /\ c <= 32) \/ c = 133 \/ c = 160

\* str.split(): the maximal runs of non-space code points, in order.
\* word is the run being read.
RECURSIVE SplitFrom(_, _, _)
SplitFrom(s, i, word) ==
    IF i > Len(s)
    THEN IF word = << >> THEN << >> ELSE << word >>
    ELSE IF IsSpace(s[i])
         THEN IF word = << >>
              THEN SplitFrom(s, i + 1, << >>)
              ELSE << word >> \o SplitFrom(s, i + 1, << >>)
         ELSE SplitFrom(s, i + 1, Append(word, s[i]))

Split(s) == SplitFrom(s, 1, << >>)

\* " ".join(words)
RECURSIVE Join(_)
Join(words) ==
    IF words = << >> THEN << >>
    ELSE IF Len(words) = 1 THEN words[1]
    ELSE words[1] \o <<32>> \o Join(Tail(words))

KeepChar(c) == IsAlnum(c) \/ IsSpace(c)

\* Faulty variant (mutation testing): the white space is kept as it is.
clean_text_unsplit(text) == SelectSeq(Lower(text), KeepChar)

\* clean_text: lowercase, keep the alphanumeric and the space code points,
\* split on white space and join with single spaces.
clean_text(text) == Join(Split(SelectSeq(Lower(text), KeepChar)))

\* ------------------------------------------------------------------------
\* fuzz.ratio (src/main.py:144)
\* ------------------------------------------------------------------------

\* fuzzywuzzy takes its SequenceMatcher from python-Levenshtein when that
\* package is installed and from difflib otherwise; which one a deployment
\* has is fixed when the process starts.
Matchers == {"difflib", "levenshtein"}

Max(x, y) == IF x >= y THEN x ELSE y

\* The length of the longest common prefix of a[i..ahi] and b[j..bhi].
RECURSIVE CommonPrefix(_, _, _, _, _, _)
CommonPrefix(a, b, i, ahi, j, bhi) ==
    IF i > ahi \/ j > bhi \/ a[i] # b[j] THEN 0
    ELSE 1 + CommonPrefix(a, b, i + 1, ahi, j + 1, bhi)

\* difflib.SequenceMatcher.find_longest_match without junk: the longest
\* block a[i..i+k-1] = b[j..j+k-1] inside a[alo..ahi] and b[blo..bhi], of
\* those the one that starts earliest in a, and of those the one that
\* starts earliest in b.
LongestMatch(a, b, alo, ahi, blo, bhi) ==
    LET Blocks == {<<i, j, CommonPrefix(a, b, i, ahi, j, bhi)>> :
                       i \in alo..ahi, j \in blo..bhi}
        Best(m) == \A n \in Blocks :
                      \/ m[3] > n[3]
                      \/ m[3] = n[3] /\ m[1] < n[1]
                      \/ m[3] = n[3] /\ m[1] = n[1] /\ m[2] <= n[2]
    IN  CHOOSE m \in Blocks : Best(m)

\* The sum of the sizes of difflib's get_matching_blocks: the longest match,
\* then the same to the left and to the right of it.
RECURSIVE MatchingSize(_, _, _, _, _, _)
MatchingSize(a, b, alo, ahi, blo, bhi) ==
    IF alo > ahi \/ blo > bhi THEN 0
    ELSE LET m == LongestMatch(a, b, alo, ahi, blo, bhi)
         IN  IF m[3] = 0 THEN 0
             ELSE m[3]
                  + MatchingSize(a, b, alo, m[1] - 1, blo, m[2] - 1)
                  + MatchingSize(a, b, m[1] + m[3], ahi, m[2] + m[3], bhi)

\* One row of the longest-common-subsequence table: row[j + 1] is the length
\* for the prefix of a ending in the code point c and the first j code
\* points of b; prev is the row before it.
RECURSIVE LcsRow(_, _, _, _)
LcsRow(c, b, prev, row) ==
    LET j == Len(row)
    IN  IF j > Len(b) THEN row
        ELSE LcsRow(c, b, prev,
                    Append(row, IF c = b[j] THEN prev[j] + 1
                                ELSE Max(prev[j + 1], row[j])))

RECURSIVE LcsRows(_, _, _, _)
LcsRows(a, b, i, prev) ==
    IF i > Len(a) THEN prev
    ELSE LcsRows(a, b, i + 1, LcsRow(a[i], b, prev, <<0>>))

\* python-Levenshtein's ratio is (lensum - d) / lensum with d the edit
\* distance in which a substitution costs 2, so lensum - d is twice the
\* length of the longest common subsequence.
LcsLength(a, b) == LcsRows(a, b, 1, [j \in 1..(Len(b) + 1) |-> 0])[Len(b) + 1]

\* The number of matched code points M of the matcher's ratio 2 * M / T.
Matches(matcher, a, b) ==
    IF matcher = "difflib"
    THEN MatchingSize(a, b, 1, Len(a), 1, Len(b))
    ELSE LcsLength(a, b)

\* int(round(n / d)) for n >= 0 and d > 0: Python rounds a half to the even
\* neighbour.
RoundHalfEven(n, d) ==
    LET q == n \div d
        r == n % d
    IN  IF 2 * r < d THEN q
        ELSE IF 2 * r > d THEN q + 1
        ELSE IF q % 2 = 0 THEN q ELSE q + 1

\* Faulty variant (mutation testing): equal strings are not answered first.
fuzz_ratio_unguarded(matcher, s1, s2) ==
    IF Len(s1) = 0 \/ Len(s2) = 0 THEN 0
    ELSE RoundHalfEven(200 * Matches(matcher, s1, s2), Len(s1) + Len(s2))

\* fuzz.ratio: 100 for equal strings (two empty ones too), 0 when one is
\* empty, otherwise the matcher's ratio as a rounded percentage.
fuzz_ratio(matcher, s1, s2) ==
    IF s1 = s2 THEN 100
    ELSE IF Len(s1) = 0 \/ Len(s2) = 0 THEN 0
    ELSE RoundHalfEven(200 * Matches(matcher, s1, s2), Len(s1) + Len(s2))

\* calculate_similarity: fuzz.ratio of the two cleaned texts
calculate_similarity(matcher, original, user_text) ==
    LET cleaned_original == clean_text(original)
        cleaned_user_text == clean_text(user_text)
    IN  fuzz_ratio(matcher, cleaned_original, cleaned_user_text)

\* str(n) of an integer n >= 0, as the f-string of handler formats the score
RECURSIVE Decimal(_)
Decimal(n) ==
    IF n < 10 THEN << 48 + n >>
    ELSE Append(Decimal(n \div 10), 48 + (n % 10))

\* ------------------------------------------------------------------------
\* The texts table and the store operations
\* ------------------------------------------------------------------------

\* A row of texts(session_id VARCHAR(255) PRIMARY KEY, original_text TEXT)
Row(session_id, text) == [session_id |-> session_id, original_text |-> text]

RowsOf(rows, session_id) == {r \in rows : r.session_id = session_id}

\* What can go wrong in one execute_query: nothing, the connection cannot
\* be opened (get_mysql_connection raises), the statement fails.
Faults == {"none", "connect", "query"}

\* execute_query raises: a fault, or a statement on a table that is not
\* there.  Nothing is committed then.
QueryRaises(fault, exists) == fault # "none" \/ ~exists

\* CREATE TABLE IF NOT EXISTS texts: the table exists afterwards
ensure_table_exists(exists) == TRUE

\* Faulty variant (mutation testing): the text is cleaned before it is stored.
save_cleaned_text(rows, session_id, text) ==
    {r \in rows : r.session_id # session_id}
      \cup {Row(session_id, clean_text(text))}

\* Faulty variant (mutation testing): a plain INSERT on a table without the key.
insert_only(rows, session_id, text) == rows \cup {Row(session_id, text)}

\* Faulty variant (mutation testing): INSERT IGNORE, the first text stays.
insert_if_absent(rows, session_id, text) ==
    IF RowsOf(rows, session_id) # {} THEN rows
    ELSE rows \cup {Row(session_id, text)}

\* INSERT INTO texts ... ON DUPLICATE KEY UPDATE original_text = text
save_original_text(rows, session_id, text) ==
    IF RowsOf(rows, session_id) # {}
    THEN {IF r.session_id = session_id THEN Row(session_id, text) ELSE r :
              r \in rows}
    ELSE rows \cup {Row(session_id, text)}

\* SELECT original_text FROM texts WHERE session_id = ...; fetchone();
\* result[0] if result else None
get_original_text(rows, session_id) ==
    LET result == RowsOf(rows, session_id)
    IN  IF result # {} THEN (CHOOSE r \in result : TRUE).original_text
        ELSE None

\* Faulty variant (mutation testing): the DELETE is never committed.
delete_uncommitted(rows, session_id) == rows

\* Faulty variant (mutation testing): a DELETE without its WHERE clause.
delete_all_rows(rows, session_id) == {}

\* DELETE FROM texts WHERE session_id = ...
delete_original_text(rows, session_id) ==
    {r \in rows : r.session_id # session_id}

\* ------------------------------------------------------------------------
\* Events and responses
\* ------------------------------------------------------------------------

Fields == {"original_utterance", "session_id", "user_id", "new"}

\* An event is a record of the fields it has.
WellFormedEvents ==
    [original_utterance : Utterances, session_id : Sessions,
     user_id : Users, new : BOOLEAN]

MalformedEvents ==
    [session_id : Sessions, user_id : Users, new : BOOLEAN]
      \cup [original_utterance : Utterances, user_id : Users, new : BOOLEAN]
      \cup [original_utterance : Utterances, session_id : Sessions,
            new : BOOLEAN]
      \cup [original_utterance : Utterances, session_id : Sessions,
            user_id : Users]

Events == WellFormedEvents \cup MalformedEvents

Has(ev, f) == f \in DOMAIN ev

NoEvent == [idle |-> TRUE]

NoResponse == [idle |-> TRUE]

\* [{"title": ..., "hide": True}], the buttons handler passes on every branch
ResetButton == << [title |-> ButtonTitle, hide |-> TRUE] >>

\* Faulty variant (mutation testing): the session is closed and the
\* identifiers are left at their defaults.
create_response_closing(text, buttons, session_id, user_id) ==
    [text |-> text,
     buttons |-> IF buttons = {} THEN << >> ELSE CHOOSE b \in buttons : TRUE,
     end_session |-> TRUE,
     session_id |-> None,
     user_id |-> None,
     new |-> TRUE,
     version |-> "1.0"]

\* create_response; buttons is the set of the value given, empty for None
create_response(text, buttons, session_id, user_id) ==
    [text |-> text,
     buttons |-> IF buttons = {} THEN << >> ELSE CHOOSE b \in buttons : TRUE,
     end_session |-> FALSE,
     session_id |-> session_id,
     user_id |-> user_id,
     new |-> TRUE,
     version |-> "1.0"]

\* the f-string of src/main.py:226-230
response_text(similarity, original_text, user_message) ==
    ResultHead \o Decimal(similarity) \o ResultMid \o original_text
      \o ResultTail \o user_message

\* `not original_text`: None and the empty string are falsy
Falsy(text) == text = None \/ text = << >>

\* ------------------------------------------------------------------------
\* State
\* ------------------------------------------------------------------------

\* The invocations of handler that can be in progress.
Workers == {"w1", "w2"}

\* the worker of the single-request-at-a-time model
MainWorker == "w1"

Locals == {"user_message", "session_id", "user_id"}

VARIABLES
    table_exists,   \* the texts table has been created
    texts,          \* the rows of the texts table
    matcher,        \* the SequenceMatcher fuzzywuzzy imported
    pc,             \* per worker: where its handler invocation stands
    event,          \* per worker: the event being handled
    bound,          \* per worker: the local variables of handler assigned
    original_text,  \* per worker: the local original_text of handler
    outcome,        \* per worker: "none", "returned" or "raised"
    response,       \* per worker: what handler returned
    faulted,        \* per worker: the store step of this request that failed
    before,         \* per worker: the rows of texts when the request came
    last,           \* the last store operation called directly, its result
    overlap,        \* per worker: another request of its session ran with it
    xq,             \* the execute_query call in progress, statement by statement
    applied         \* the last application of a pure function, its result

vars == <<table_exists, texts, matcher, pc, event, bound, original_text,
          outcome, response, faulted, before, last, overlap, xq, applied>>

\* A direct call of a store operation: its arguments, the fault met, the
\* text the session had before it, whether it raised, what it returned.
Call(op, sid, text, fault, had, raised, result) ==
    [op |-> op, session_id |-> sid, text |-> text, fault |-> fault,
     had |-> had, raised |-> raised, result |-> result]

NoCall == Call("none", "", None, "none", None, FALSE, None)

\* execute_query at rest: no call in progress, no connection and no cursor
\* open.  at is the statement of execute_query the call stands before,
\* executed counts the statements the call has executed.
NoQuery ==
    [at |-> "idle", op |-> "none", session_id |-> "", text |-> None,
     fault |-> "none", raising |-> FALSE, result |-> None,
     connections |-> 0, cursors |-> 0, executed |-> 0]

\* no pure function applied yet
NoApplication ==
    [fn |-> "none", pass |-> 0, s1 |-> << >>, s2 |-> << >>, text |-> << >>,
     score |-> 0]

Init ==
    /\ table_exists \in BOOLEAN
    /\ texts = {}
    /\ matcher \in Matchers
    /\ pc = [p \in Workers |-> "idle"]
    /\ event = [p \in Workers |-> NoEvent]
    /\ bound = [p \in Workers |-> {}]
    /\ original_text = [p \in Workers |-> None]
    /\ outcome = [p \in Workers |-> "none"]
    /\ response = [p \in Workers |-> NoResponse]
    /\ faulted = [p \in Workers |-> "none"]
    /\ before = [p \in Workers |-> {}]
    /\ last = NoCall
    /\ overlap = [p \in Workers |-> FALSE]
    /\ xq = NoQuery
    /\ applied = NoApplication

\* ------------------------------------------------------------------------
\* handler, one action per store step (src/main.py:174-236)
\* ------------------------------------------------------------------------

user_message(p) == event[p].original_utterance

session_id(p) == event[p].session_id

user_id(p) == event[p].user_id

\* handler returns create_response(text, [reset button], session_id, user_id)
Respond(p, text) ==
    /\ response' = [response EXCEPT
                       ![p] = create_response(text, {ResetButton},
                                              session_id(p), user_id(p))]
    /\ outcome' = [outcome EXCEPT ![p] = "returned"]
    /\ pc' = [pc EXCEPT ![p] = "done"]

\* a store step raised: control goes to the except clause
Raise(p) ==
    /\ pc' = [pc EXCEPT ![p] = "except"]
    /\ faulted' = [faulted EXCEPT ![p] = pc[p]]
    /\ UNCHANGED <<outcome, response>>

\* The first statements of the try block: the three locals are read from
\* the event in this order, and a missing field raises KeyError at once.
BoundBy(ev) ==
    IF ~Has(ev, "original_utterance") THEN {}
    ELSE IF ~Has(ev, "session_id") THEN {"user_message"}
    ELSE IF ~Has(ev, "user_id") THEN {"user_message", "session_id"}
    ELSE Locals

\* Worker q has a request of the session of ev in hand (handled or not yet
\* taken by the transport) when worker p receives ev.
Meets(q, p, ev) ==
    /\ q # p
    /\ pc[q] # "idle"
    /\ Has(ev, "session_id") /\ Has(event[q], "session_id")
    /\ event[q].session_id = ev.session_id

\* handler is called with an event.
Receive(p, ev) ==
    /\ pc[p] = "idle"
    /\ event' = [event EXCEPT ![p] = ev]
    /\ bound' = [bound EXCEPT ![p] = BoundBy(ev)]
    /\ pc' = [pc EXCEPT ![p] = IF BoundBy(ev) = Locals THEN "ensure"
                               ELSE "except"]
    /\ before' = [before EXCEPT ![p] = texts]
    /\ original_text' = [original_text EXCEPT ![p] = None]
    /\ outcome' = [outcome EXCEPT ![p] = "none"]
    /\ response' = [response EXCEPT ![p] = NoResponse]
    /\ faulted' = [faulted EXCEPT ![p] = "none"]
    /\ overlap' = [q \in Workers |->
                      IF q = p THEN \E r \in Workers : Meets(r, p, ev)
                      ELSE overlap[q] \/ Meets(q, p, ev)]
    /\ UNCHANGED <<table_exists, texts, matcher, last, xq, applied>>

\* Faulty variant (mutation testing): the reset test before the new-session test.
DispatchResetFirst(ev) ==
    IF Lower(ev.original_utterance) = ResetKeyword THEN "delete"
    ELSE IF ~Has(ev, "new") THEN "except"
    ELSE IF ev.new THEN "greet"
    ELSE "get"

\* Faulty variant (mutation testing): the utterance is compared as it came.
DispatchExactCase(ev) ==
    IF ~Has(ev, "new") THEN "except"
    ELSE IF ev.new THEN "greet"
    ELSE IF ev.original_utterance = ResetKeyword THEN "delete"
    ELSE "get"

\* Faulty variant (mutation testing): the greeting is given once, while the
\* table has not been created yet.
DispatchGreetingOnce(ev) ==
    IF ~Has(ev, "new") THEN "except"
    ELSE IF ev.new /\ ~table_exists THEN "greet"
    ELSE IF Lower(ev.original_utterance) = ResetKeyword THEN "delete"
    ELSE "get"

\* Faulty variant (mutation testing): the reset goes through the similarity
\* score.
DispatchFuzzy(ev) ==
    IF ~Has(ev, "new") THEN "except"
    ELSE IF ev.new THEN "greet"
    ELSE IF calculate_similarity("difflib", ev.original_utterance,
                                 ResetKeyword) >= 90
    THEN "delete"
    ELSE "get"

\* Faulty variant (mutation testing): there is no reset test.
DispatchNoReset(ev) ==
    IF ~Has(ev, "new") THEN "except"
    ELSE IF ev.new THEN "greet"
    ELSE "get"

\* The tests after ensure_table_exists: event['session']['new'] (KeyError
\* when the field is missing), then the reset keyword against the lowercased
\* utterance, then the lookup.
Dispatch(ev) ==
    IF ~Has(ev, "new") THEN "except"
    ELSE IF ev.new THEN "greet"
    ELSE IF Lower(ev.original_utterance) = ResetKeyword THEN "delete"
    ELSE "get"

\* Faulty variant (mutation testing): the new-session test comes first and
\* the greeting is given without a store step.
EnsureTableAfterGreeting(p, fault) ==
    /\ pc[p] = "ensure"
    /\ IF Dispatch(event[p]) = "greet"
       THEN Respond(p, GreetingText) /\ UNCHANGED <<table_exists, faulted>>
       ELSE IF QueryRaises(fault, TRUE)
       THEN Raise(p) /\ UNCHANGED table_exists
       ELSE /\ table_exists' = ensure_table_exists(table_exists)
            /\ UNCHANGED faulted
            /\ pc' = [pc EXCEPT ![p] = Dispatch(event[p])]
            /\ UNCHANGED <<outcome, response>>
    /\ UNCHANGED <<texts, matcher, event, bound, original_text, before, last, overlap, xq, applied>>

\* ensure_table_exists(), then the new-session test and the reset test.
EnsureTable(p, fault) ==
    /\ pc[p] = "ensure"
    /\ IF QueryRaises(fault, TRUE)
       THEN Raise(p) /\ UNCHANGED table_exists
       ELSE /\ table_exists' = ensure_table_exists(table_exists)
            /\ UNCHANGED faulted
            /\ IF Dispatch(event[p]) = "greet"
               THEN Respond(p, GreetingText)
               ELSE /\ pc' = [pc EXCEPT ![p] = Dispatch(event[p])]
                    /\ UNCHANGED <<outcome, response>>
    /\ UNCHANGED <<texts, matcher, event, bound, original_text, before, last, overlap, xq, applied>>

\* The reset branch: delete_original_text(session_id).
DeleteText(p, fault) ==
    /\ pc[p] = "delete"
    /\ IF QueryRaises(fault, table_exists)
       THEN Raise(p) /\ UNCHANGED texts
       ELSE /\ texts' = delete_original_text(texts, session_id(p))
            /\ Respond(p, ResetDoneText)
            /\ UNCHANGED faulted
    /\ UNCHANGED <<table_exists, matcher, event, bound, original_text,
                   before, last, overlap, xq, applied>>

\* get_original_text(session_id); with a text found, the recitation branch.
GetText(p, fault) ==
    /\ pc[p] = "get"
    /\ IF QueryRaises(fault, table_exists)
       THEN Raise(p) /\ UNCHANGED original_text
       ELSE LET found == get_original_text(texts, session_id(p))
            IN  /\ original_text' = [original_text EXCEPT ![p] = found]
                /\ UNCHANGED faulted
                /\ IF Falsy(found)
                   THEN /\ pc' = [pc EXCEPT ![p] = "save"]
                        /\ UNCHANGED <<outcome, response>>
                   ELSE Respond(p, response_text(
                            calculate_similarity(matcher, found,
                                                 user_message(p)),
                            found, user_message(p)))
    /\ UNCHANGED <<table_exists, texts, matcher, event, bound, before, last, overlap, xq, applied>>

\* No text found: save_original_text(session_id, user_message).
SaveText(p, fault) ==
    /\ pc[p] = "save"
    /\ IF QueryRaises(fault, table_exists)
       THEN Raise(p) /\ UNCHANGED texts
       ELSE /\ texts' = save_original_text(texts, session_id(p),
                                           user_message(p))
            /\ Respond(p, SavedText)
            /\ UNCHANGED faulted
    /\ UNCHANGED <<table_exists, matcher, event, bound, original_text,
                   before, last, overlap, xq, applied>>

\* Faulty variant (mutation testing): the except clause logs and raises again.
ExceptClauseReraise(p) ==
    /\ pc[p] = "except"
    /\ outcome' = [outcome EXCEPT ![p] = "raised"]
    /\ pc' = [pc EXCEPT ![p] = "done"]
    /\ UNCHANGED <<table_exists, texts, matcher, event, bound, original_text,
                   response, faulted, before, last, overlap, xq, applied>>

\* The except clause builds the apology from the locals session_id and
\* user_id; reading one that was never assigned raises UnboundLocalError,
\* which leaves handler.
ExceptClause(p) ==
    /\ pc[p] = "except"
    /\ IF {"session_id", "user_id"} \subseteq bound[p]
       THEN Respond(p, ApologyText)
       ELSE /\ outcome' = [outcome EXCEPT ![p] = "raised"]
            /\ pc' = [pc EXCEPT ![p] = "done"]
            /\ UNCHANGED response
    /\ UNCHANGED <<table_exists, texts, matcher, event, bound, original_text,
                   faulted, before, last, overlap, xq, applied>>

\* The transport takes what handler returned or raised.
Return(p) ==
    /\ pc[p] = "done"
    /\ pc' = [pc EXCEPT ![p] = "idle"]
    /\ event' = [event EXCEPT ![p] = NoEvent]
    /\ bound' = [bound EXCEPT ![p] = {}]
    /\ original_text' = [original_text EXCEPT ![p] = None]
    /\ outcome' = [outcome EXCEPT ![p] = "none"]
    /\ response' = [response EXCEPT ![p] = NoResponse]
    /\ faulted' = [faulted EXCEPT ![p] = "none"]
    /\ before' = [before EXCEPT ![p] = {}]
    /\ overlap' = [overlap EXCEPT ![p] = FALSE]
    /\ UNCHANGED <<table_exists, texts, matcher, last, xq, applied>>

Step(p) ==
    \/ \E ev \in Events : Receive(p, ev)
    \/ \E fault \in Faults : EnsureTable(p, fault)
    \/ \E fault \in Faults : DeleteText(p, fault)
    \/ \E fault \in Faults : GetText(p, fault)
    \/ \E fault \in Faults : SaveText(p, fault)
    \/ ExceptClause(p)
    \/ Return(p)

\* One request at a time: the next event is handled when the response to
\* the one before has been returned.
Next == Step(MainWorker)

Spec == Init /\ [][Next]_vars

\* ------------------------------------------------------------------------
\* The store operations called directly, in any order
\* ------------------------------------------------------------------------

handlervars == <<matcher, pc, event, bound, original_text, outcome, response,
                 faulted, before, overlap>>

CallEnsure(fault) ==
    /\ table_exists' = IF QueryRaises(fault, TRUE) THEN table_exists
                       ELSE ensure_table_exists(table_exists)
    /\ last' = Call("ensure", "", None, fault, None,
                    QueryRaises(fault, TRUE), None)
    /\ UNCHANGED <<texts, handlervars, xq, applied>>

CallSave(sid, text, fault) ==
    /\ texts' = IF QueryRaises(fault, table_exists) THEN texts
                ELSE save_original_text(texts, sid, text)
    /\ last' = Call("save", sid, text, fault, get_original_text(texts, sid),
                    QueryRaises(fault, table_exists), None)
    /\ UNCHANGED <<table_exists, handlervars, xq, applied>>

CallGet(sid, fault) ==
    /\ last' = Call("get", sid, None, fault, get_original_text(texts, sid),
                    QueryRaises(fault, table_exists),
                    IF QueryRaises(fault, table_exists) THEN None
                    ELSE get_original_text(texts, sid))
    /\ UNCHANGED <<table_exists, texts, handlervars, xq, applied>>

CallDelete(sid, fault) ==
    /\ texts' = IF QueryRaises(fault, table_exists) THEN texts
                ELSE delete_original_text(texts, sid)
    /\ last' = Call("delete", sid, None, fault, get_original_text(texts, sid),
                    QueryRaises(fault, table_exists), None)
    /\ UNCHANGED <<table_exists, handlervars, xq, applied>>

NextStore ==
    \/ \E fault \in Faults : CallEnsure(fault)
    \/ \E sid \in Sessions, text \in Utterances, fault \in Faults :
           CallSave(sid, text, fault)
    \/ \E sid \in Sessions, fault \in Faults : CallGet(sid, fault)
    \/ \E sid \in Sessions, fault \in Faults : CallDelete(sid, fault)

SpecStore == Init /\ [][NextStore]_vars

\* ------------------------------------------------------------------------
\* execute_query, statement by statement (src/main.py:96-113)
\* ------------------------------------------------------------------------

\* the connections the server accepts at a time
MaxConnections == 2

statevars == <<matcher, pc, event, bound, original_text, outcome, response,
               faulted, before, last, overlap, applied>>

\* A store operation calls execute_query.
XqCall(op, sid, text) ==
    /\ xq.at = "idle"
    /\ xq' = [NoQuery EXCEPT !.at = "connect", !.op = op,
                             !.session_id = sid, !.text = text,
                             !.connections = xq.connections,
                             !.cursors = xq.cursors]
    /\ UNCHANGED <<table_exists, texts, statevars>>

\* with get_mysql_connection() as connection: a new connection is opened,
\* or the error of connect is logged and raised again.
XqConnect(fault) ==
    /\ xq.at = "connect"
    /\ xq' = IF fault # "none" \/ xq.connections >= MaxConnections
             THEN [xq EXCEPT !.at = "raised", !.raising = TRUE,
                             !.fault = "connect"]
             ELSE [xq EXCEPT !.at = "cursor",
                             !.connections = xq.connections + 1]
    /\ UNCHANGED <<table_exists, texts, statevars>>

\* with connection.cursor() as cursor
XqCursor ==
    /\ xq.at = "cursor"
    /\ xq' = [xq EXCEPT !.at = "execute", !.cursors = xq.cursors + 1]
    /\ UNCHANGED <<table_exists, texts, statevars>>

\* Faulty variant (mutation testing): no with statements, so a statement
\* that fails leaves the connection and the cursor open.
XqExecuteLeaking(fault) ==
    /\ xq.at = "execute"
    /\ xq' = IF QueryRaises(fault, xq.op = "ensure" \/ table_exists)
             THEN [xq EXCEPT !.at = "raised", !.raising = TRUE,
                             !.fault = "query"]
             ELSE [xq EXCEPT !.at = IF xq.op = "get" THEN "fetchone"
                                    ELSE "commit",
                             !.executed = xq.executed + 1]
    /\ UNCHANGED <<table_exists, texts, statevars>>

\* cursor.execute(query, params): an exception leaves both with blocks.
XqExecute(fault) ==
    /\ xq.at = "execute"
    /\ xq' = IF QueryRaises(fault, xq.op = "ensure" \/ table_exists)
             THEN [xq EXCEPT !.at = "close_cursor", !.raising = TRUE,
                             !.fault = "query"]
             ELSE [xq EXCEPT !.at = IF xq.op = "get" THEN "fetchone"
                                    ELSE "commit",
                             !.executed = xq.executed + 1]
    /\ UNCHANGED <<table_exists, texts, statevars>>

\* if fetchone: return cursor.fetchone(), out of both with blocks
XqFetchone ==
    /\ xq.at = "fetchone"
    /\ xq' = [xq EXCEPT !.at = "close_cursor",
                        !.result = get_original_text(texts, xq.session_id)]
    /\ UNCHANGED <<table_exists, texts, statevars>>

\* connection.commit(): the statement takes effect
XqCommit ==
    /\ xq.at = "commit"
    /\ table_exists' = IF xq.op = "ensure"
                       THEN ensure_table_exists(table_exists)
                       ELSE table_exists
    /\ texts' = IF xq.op = "save"
                THEN save_original_text(texts, xq.session_id, xq.text)
                ELSE IF xq.op = "delete"
                THEN delete_original_text(texts, xq.session_id)
                ELSE texts
    /\ xq' = [xq EXCEPT !.at = "close_cursor"]
    /\ UNCHANGED statevars

\* the inner with block is left: the cursor is closed
XqCloseCursor ==
    /\ xq.at = "close_cursor"
    /\ xq' = [xq EXCEPT !.at = "close_connection",
                        !.cursors = xq.cursors - 1]
    /\ UNCHANGED <<table_exists, texts, statevars>>

\* the outer with block is left: the connection is closed, and
\* execute_query returns or lets the exception through
XqCloseConnection ==
    /\ xq.at = "close_connection"
    /\ xq' = [xq EXCEPT !.at = IF xq.raising THEN "raised" ELSE "returned",
                        !.connections = xq.connections - 1]
    /\ UNCHANGED <<table_exists, texts, statevars>>

\* the caller has the result or the exception
XqDone ==
    /\ xq.at \in {"returned", "raised"}
    /\ xq' = [NoQuery EXCEPT !.connections = xq.connections,
                             !.cursors = xq.cursors]
    /\ UNCHANGED <<table_exists, texts, statevars>>

NextConn ==
    \/ XqCall("ensure", "", None)
    \/ \E sid \in Sessions, text \in Utterances : XqCall("save", sid, text)
    \/ \E sid \in Sessions : XqCall("get", sid, None)
    \/ \E sid \in Sessions : XqCall("delete", sid, None)
    \/ \E fault \in {"none", "connect"} : XqConnect(fault)
    \/ XqCursor
    \/ \E fault \in {"none", "query"} : XqExecute(fault)
    \/ XqFetchone
    \/ XqCommit
    \/ XqCloseCursor
    \/ XqCloseConnection
    \/ XqDone

SpecConn == Init /\ [][NextConn]_vars

\* ------------------------------------------------------------------------
\* Requests handled concurrently (no lock is taken between the statements)
\* ------------------------------------------------------------------------

\* The utterances of the concurrent requests: "a", "!" and the button title.
ConcUtterances == {<<97>>, <<33>>, ButtonTitle}

\* the concurrent requests come from one user
ConcUsers == {"u1"}

ConcEvents ==
    [original_utterance : ConcUtterances, session_id : Sessions,
     user_id : ConcUsers, new : BOOLEAN]

\* Every worker handles its requests as handler does; the store steps of
\* different workers interleave in any order.
StepConc(p) ==
    \/ \E ev \in ConcEvents : Receive(p, ev)
    \/ \E fault \in Faults : EnsureTable(p, fault)
    \/ \E fault \in Faults : DeleteText(p, fault)
    \/ \E fault \in Faults : GetText(p, fault)
    \/ \E fault \in Faults : SaveText(p, fault)
    \/ ExceptClause(p)
    \/ Return(p)

NextConc == \E p \in Workers : StepConc(p)

SpecConc == Init /\ [][NextConc]_vars

\* ------------------------------------------------------------------------
\* The pure functions, applied to bounded inputs
\* ------------------------------------------------------------------------

MaxPureLen == 3

\* "A", "a", "1", space, tab, "!", and the Cyrillic letters IO and es
PureAlphabet == {65, 97, 49, 32, 9, 33, 1025, 1089}

PureStrings ==
    UNION {[1..n -> PureAlphabet] : n \in 0..MaxPureLen}

MaxScoreLen == 2

\* "a", "b" and "!"
ScoreAlphabet == {97, 98, 33}

ScoreStrings ==
    UNION {[1..n -> ScoreAlphabet] : n \in 0..MaxScoreLen}

storevars == <<table_exists, texts, matcher, last, xq>>

\* clean_text(text)
ApplyClean(text) ==
    /\ applied = NoApplication
    /\ applied' = [fn |-> "clean_text", pass |-> 1, s1 |-> text,
                   s2 |-> clean_text(text), text |-> clean_text(text),
                   score |-> 0]
    /\ UNCHANGED <<storevars, handlervars>>

\* clean_text applied to what clean_text returned
ApplyCleanAgain ==
    /\ applied.fn = "clean_text"
    /\ applied.pass = 1
    /\ applied' = [applied EXCEPT !.pass = 2,
                                  !.text = clean_text(applied.text)]
    /\ UNCHANGED <<storevars, handlervars>>

\* calculate_similarity(original, user_text)
ApplyScore(original, user_text) ==
    /\ applied = NoApplication
    /\ applied' = [fn |-> "calculate_similarity", pass |-> 1,
                   s1 |-> original, s2 |-> user_text, text |-> << >>,
                   score |-> calculate_similarity(matcher, original,
                                                  user_text)]
    /\ UNCHANGED <<storevars, handlervars>>

\* The recitation branch of handler, which runs when the text found is not
\* falsy: the score and the text of the response.
ApplyRecitation(found, said) ==
    /\ applied = NoApplication
    /\ ~Falsy(found)
    /\ LET similarity == calculate_similarity(matcher, found, said)
       IN  applied' = [fn |-> "recitation", pass |-> 1, s1 |-> found,
                       s2 |-> said, score |-> similarity,
                       text |-> response_text(similarity, found, said)]
    /\ UNCHANGED <<storevars, handlervars>>

\* the caller drops the value returned
Discard ==
    /\ applied # NoApplication
    /\ applied' = NoApplication
    /\ UNCHANGED <<storevars, handlervars>>

NextPure ==
    \/ \E text \in PureStrings : ApplyClean(text)
    \/ ApplyCleanAgain
    \/ \E original, user_text \in ScoreStrings :
           ApplyScore(original, user_text)
    \/ \E found, said \in ScoreStrings : ApplyRecitation(found, said)
    \/ Discard

SpecPure == Init /\ [][NextPure]_vars

\* ------------------------------------------------------------------------
\* Properties of handler (specification Spec)
\* ------------------------------------------------------------------------

\* handler has returned or raised and the transport has not taken it yet
Finished(p) == pc[p] = "done"

\* the event has all four fields
WellFormed(p) == DOMAIN event[p] = Fields

\* no store step of the request failed
NoFault(p) == faulted[p] = "none"

\* the event's utterance is the reset keyword but for letter case
IsReset(p) == Lower(event[p].original_utterance) = ResetKeyword

\* the text stored for the event's session: when the request came, and now
StoredBefore(p) == RowsOf(before[p], event[p].session_id)

StoredNow(p) == RowsOf(texts, event[p].session_id)

\* the response has this text, the reset button and the event's identifiers
Answers(p, text) ==
    /\ outcome[p] = "returned"
    /\ response[p].text = text
    /\ response[p].buttons = << [title |-> ButtonTitle, hide |-> TRUE] >>
    /\ response[p].session_id = event[p].session_id
    /\ response[p].user_id = event[p].user_id

\* C1: a well-formed event never makes handler raise, and when a store step
\* of the request failed (at ensure_table_exists, delete_original_text,
\* get_original_text or save_original_text, on connecting or on the
\* statement) handler returns the apology with the reset button and the
\* event's session_id and user_id.
C1_StoreFailureApology ==
    \A p \in Workers :
        Finished(p) /\ WellFormed(p) =>
            /\ outcome[p] = "returned"
            /\ ~NoFault(p) => Answers(p, ApologyText)

\* a well-formed request whose save failed after a lookup that found nothing
C1_Witness ==
    \E p \in Workers :
        /\ Finished(p) /\ WellFormed(p)
        /\ faulted[p] = "save"
        /\ Answers(p, ApologyText)

\* C2: for every event, also one that lacks original_utterance, session_id
\* or user_id, handler returns a response and lets no exception escape.
C2_NoExceptionEscapes ==
    \A p \in Workers : Finished(p) => outcome[p] = "returned"

\* C3: a request of a new session leaves the texts table as it was, and
\* when no store step fails it is answered with the greeting, whatever the
\* utterance (the reset keyword too) and whatever is stored for the session.
C3_NewSessionFirst ==
    \A p \in Workers :
        Finished(p) /\ WellFormed(p) /\ event[p].new =>
            /\ texts = before[p]
            /\ NoFault(p) => Answers(p, GreetingText)

\* the reset keyword as the utterance of a new session that has a row
C3_Witness ==
    \E p \in Workers :
        /\ Finished(p) /\ WellFormed(p) /\ event[p].new
        /\ IsReset(p)
        /\ StoredBefore(p) # {}
        /\ Answers(p, GreetingText)
        /\ StoredNow(p) = StoredBefore(p)

\* C4: a request of a running session whose utterance is the reset keyword
\* in any letter case, no store step failing, leaves no text stored for the
\* session and is answered with the deletion confirmation, whether a row
\* existed before or not.
C4_ResetDeletes ==
    \A p \in Workers :
        Finished(p) /\ WellFormed(p) /\ ~event[p].new /\ IsReset(p)
          /\ NoFault(p) =>
            /\ get_original_text(texts, event[p].session_id) = None
            /\ Answers(p, ResetDoneText)

\* the button title (capitalised keyword) sent for a session that had a row
C4_Witness ==
    \E p \in Workers :
        /\ Finished(p) /\ WellFormed(p) /\ ~event[p].new /\ NoFault(p)
        /\ event[p].original_utterance = ButtonTitle
        /\ StoredBefore(p) # {}
        /\ StoredNow(p) = {}
        /\ Answers(p, ResetDoneText)

\* C5 as stated: in a running session every utterance whose clean_text form
\* equals the reset keyword goes to the reset branch: it is never looked up
\* or saved, and the session's text is deleted.
C5_NormalizedReset ==
    \A p \in Workers :
        pc[p] # "idle" /\ WellFormed(p) /\ ~event[p].new
          /\ clean_text(event[p].original_utterance) = ResetKeyword =>
            /\ pc[p] \notin {"get", "save"}
            /\ Finished(p) => texts \subseteq before[p]
            /\ Finished(p) /\ NoFault(p) => StoredNow(p) = {}

\* C5 amended: in a running session every utterance whose lowercased form
\* equals the reset keyword goes to the reset branch: it is never looked up
\* or saved, no row is added, and the session's text is deleted when no
\* store step fails.
C5_LowercasedReset ==
    \A p \in Workers :
        pc[p] # "idle" /\ WellFormed(p) /\ ~event[p].new /\ IsReset(p) =>
            /\ pc[p] \notin {"get", "save"}
            /\ Finished(p) => texts \subseteq before[p]
            /\ Finished(p) /\ NoFault(p) => StoredNow(p) = {}

\* the keyword in capitals has deleted the row of its session
C5_Witness ==
    \E p \in Workers :
        /\ Finished(p) /\ WellFormed(p) /\ ~event[p].new /\ NoFault(p)
        /\ event[p].original_utterance # ResetKeyword
        /\ event[p].original_utterance # ButtonTitle
        /\ IsReset(p)
        /\ StoredBefore(p) # {}
        /\ StoredNow(p) = {}

\* C6: a request of a running session whose utterance is not the reset
\* keyword and for whose session no row is stored, no store step failing,
\* stores the utterance as it came (not cleaned) as the one text of the
\* session and is answered with the saved-confirmation.
C6_SavesVerbatim ==
    \A p \in Workers :
        Finished(p) /\ WellFormed(p) /\ ~event[p].new /\ ~IsReset(p)
          /\ StoredBefore(p) = {} /\ NoFault(p) =>
            /\ StoredNow(p) =
                   {Row(event[p].session_id, event[p].original_utterance)}
            /\ Answers(p, SavedText)

\* an utterance that clean_text would change has been saved as it came
C6_Witness ==
    \E p \in Workers :
        /\ Finished(p) /\ WellFormed(p) /\ ~event[p].new /\ ~IsReset(p)
        /\ StoredBefore(p) = {} /\ NoFault(p)
        /\ clean_text(event[p].original_utterance)
               # event[p].original_utterance
        /\ get_original_text(texts, event[p].session_id)
               = event[p].original_utterance
        /\ Answers(p, SavedText)

\* C7: a request never overwrites a stored text: a session's text goes from
\* absent to a value or from a value to absent only, and a request of a
\* running session that is not a reset and finds a row leaves the table as
\* it was and does not answer with the saved-confirmation.
C7_WritesOnlyWhenAbsent ==
    \A p \in Workers :
        Finished(p) /\ WellFormed(p) =>
            /\ \A s \in Sessions :
                   RowsOf(before[p], s) # {} /\ RowsOf(texts, s) # {} =>
                       RowsOf(texts, s) = RowsOf(before[p], s)
            /\ ~event[p].new /\ ~IsReset(p) /\ StoredBefore(p) # {} =>
                   /\ texts = before[p]
                   /\ NoFault(p) => response[p].text # SavedText

\* C8: a request of a running session that is not a reset and for whose
\* session a text is stored, no store step failing, is answered with the
\* score calculate_similarity gives for the stored text and the utterance,
\* the stored text as saved and the utterance as received.
C8_RecitationResponse ==
    \A p \in Workers :
        Finished(p) /\ WellFormed(p) /\ ~event[p].new /\ ~IsReset(p)
          /\ StoredBefore(p) # {} /\ NoFault(p) =>
            LET stored == get_original_text(before[p], event[p].session_id)
                said == event[p].original_utterance
            IN  Answers(p, ResultHead
                             \o Decimal(calculate_similarity(matcher, stored,
                                                             said))
                             \o ResultMid \o stored \o ResultTail \o said)

\* ------------------------------------------------------------------------
\* Properties of the store operations (specification SpecStore)
\* ------------------------------------------------------------------------

\* the step is a call of op that did not raise
Called(op) == last'.op = op /\ ~last'.raised

\* the call before this step was a call of op that did not raise, and this
\* step is a call for the same session
After(op) ==
    /\ last.op = op /\ ~last.raised
    /\ last'.session_id = last.session_id

OthersKept(sid) ==
    \A s \in Sessions : s # sid => RowsOf(texts', s) = RowsOf(texts, s)

\* C9: a save that did not raise leaves exactly the row (id, text) for its
\* session and the rows of the other sessions as they were; a lookup of the
\* session right after it returns the text saved (the later one of two
\* saves); no session ever has more than one row.
C9_SaveRoundTrip ==
    /\ [](\A s \in Sessions : Cardinality(RowsOf(texts, s)) <= 1)
    /\ [][Called("save") =>
              /\ RowsOf(texts', last'.session_id)
                     = {Row(last'.session_id, last'.text)}
              /\ OthersKept(last'.session_id)]_vars
    /\ [][After("save") /\ Called("get") => last'.result = last.text]_vars

\* a save over another text of the session, with a row of another session
C9_Witness ==
    /\ last.op = "save" /\ ~last.raised
    /\ last.had \notin {None, last.text}
    /\ RowsOf(texts, last.session_id) = {Row(last.session_id, last.text)}
    /\ \E s \in Sessions : s # last.session_id /\ RowsOf(texts, s) # {}

\* C10: a delete that did not raise leaves no row for its session and the
\* rows of the other sessions as they were; with no fault a lookup right
\* after it returns None and does not raise, a delete for a session without
\* a row does not raise and changes nothing, and a second delete right
\* after the first changes nothing.
C10_DeleteIdempotent ==
    /\ [][Called("delete") =>
              /\ RowsOf(texts', last'.session_id) = {}
              /\ OthersKept(last'.session_id)]_vars
    /\ [][After("delete") /\ last'.op = "get" /\ last'.fault = "none" =>
              ~last'.raised /\ last'.result = None]_vars
    /\ [][last'.op = "delete" /\ last'.fault = "none" /\ table_exists
            /\ RowsOf(texts, last'.session_id) = {} =>
              ~last'.raised /\ texts' = texts]_vars
    /\ [][After("delete") /\ last'.op = "delete" /\ last'.fault = "none" =>
              ~last'.raised /\ texts' = texts]_vars

\* a saved text has been deleted while another session keeps its row
C10_Witness ==
    /\ last.op = "delete" /\ ~last.raised
    /\ last.had # None
    /\ RowsOf(texts, last.session_id) = {}
    /\ texts # {}

\* ------------------------------------------------------------------------
\* Properties of execute_query (specification SpecConn)
\* ------------------------------------------------------------------------

\* C11: every store operation opens a connection of its own and one cursor
\* on it, executes one statement (none when it raises before or at the
\* statement), and when execute_query has returned or raised, and between
\* calls, no connection and no cursor is open.
C11_ConnectionsReleased ==
    /\ xq.at \in {"idle", "connect", "returned", "raised"} =>
           xq.connections = 0 /\ xq.cursors = 0
    /\ xq.at \in {"cursor", "execute", "fetchone", "commit", "close_cursor",
                  "close_connection"} => xq.connections = 1
    /\ xq.at \in {"execute", "fetchone", "commit", "close_cursor"} =>
           xq.cursors = 1
    /\ xq.at \in {"cursor", "close_connection"} => xq.cursors = 0
    /\ xq.executed <= 1
    /\ xq.at = "returned" => xq.executed = 1
    /\ xq.at = "raised" => xq.executed = 0

\* a save whose statement failed has raised with everything released
C11_Witness ==
    /\ xq.at = "raised"
    /\ xq.op = "save"
    /\ xq.fault = "query"
    /\ xq.connections = 0 /\ xq.cursors = 0

\* ------------------------------------------------------------------------
\* Properties of concurrent requests (specification SpecConc)
\* ------------------------------------------------------------------------

\* What a request answers and leaves in the table when it runs alone and no
\* store step fails: the text of the response and the rows afterwards.
Alone(ev, rows, m) ==
    LET sid == ev.session_id
        said == ev.original_utterance
        stored == RowsOf(rows, sid)
        others == {r \in rows : r.session_id # sid}
        found == (CHOOSE r \in stored : TRUE).original_text
    IN  IF ev.new THEN [text |-> GreetingText, rows |-> rows]
        ELSE IF Lower(said) = ResetKeyword
        THEN [text |-> ResetDoneText, rows |-> others]
        ELSE IF stored = {} \/ stored = {Row(sid, << >>)}
        THEN [text |-> SavedText, rows |-> others \cup {Row(sid, said)}]
        ELSE [text |-> ResultHead
                         \o Decimal(calculate_similarity(m, found, said))
                         \o ResultMid \o found \o ResultTail \o said,
              rows |-> rows]

\* worker p has just written (saved or deleted) in this step
Writes(p) ==
    /\ pc[p] \in {"save", "delete"}
    /\ pc'[p] = "done"
    /\ faulted'[p] = "none"

\* C12: a request with which no other request of its session ran answers
\* and leaves its session's row as if it had run alone, whatever the
\* requests of other sessions did in between (the apology and the row
\* untouched when one of its store steps failed); and the rows of a session
\* change only in a write step of a request of that session.
C12_SessionsIndependent ==
    /\ [](\A p \in Workers :
             Finished(p) /\ WellFormed(p) /\ ~overlap[p] =>
                 IF NoFault(p)
                 THEN /\ Answers(p, Alone(event[p], before[p], matcher).text)
                      /\ StoredNow(p) =
                             RowsOf(Alone(event[p], before[p], matcher).rows,
                                    event[p].session_id)
                 ELSE /\ Answers(p, ApologyText)
                      /\ StoredNow(p) = StoredBefore(p))
    /\ [][\A s \in Sessions :
              RowsOf(texts', s) # RowsOf(texts, s) =>
                  \E p \in Workers : Writes(p) /\ event[p].session_id = s]_vars

\* two requests of different sessions that both started before either wrote:
\* one saved its text, the other deleted the row of its session
C12_Witness ==
    \E p, q \in Workers :
        /\ Finished(p) /\ Finished(q) /\ NoFault(p) /\ NoFault(q)
        /\ event[p].session_id # event[q].session_id
        /\ before[p] = before[q]
        /\ StoredBefore(p) = {} /\ StoredNow(p) # {}
        /\ StoredBefore(q) # {} /\ StoredNow(q) = {}
        /\ Answers(p, SavedText) /\ Answers(q, ResetDoneText)

\* C13: two requests of one session are not kept apart: both can find no
\* row and both save.  No session ever has two rows, and when a request
\* saves after another request of its session has saved and answered, the
\* session's one row holds the text of the later save and the later request
\* answers with the saved-confirmation too.
C13_LastWriteWins ==
    /\ [](\A s \in Sessions : Cardinality(RowsOf(texts, s)) <= 1)
    /\ [][\A p, q \in Workers :
              /\ p # q
              /\ pc[p] = "save" /\ Writes(p)
              /\ Finished(q) /\ NoFault(q)
              /\ event[q].session_id = event[p].session_id
              /\ response[q].text = SavedText
              => /\ RowsOf(texts', event[p].session_id) =
                        {Row(event[p].session_id,
                             event[p].original_utterance)}
                 /\ response'[p].text = SavedText]_vars

\* both requests of the session found no row, both saved and both were
\* answered with the saved-confirmation; one row is left
C13_Witness ==
    \E p, q \in Workers :
        /\ p # q
        /\ Finished(p) /\ Finished(q) /\ NoFault(p) /\ NoFault(q)
        /\ event[p].session_id = event[q].session_id
        /\ event[p].original_utterance # event[q].original_utterance
        /\ StoredBefore(p) = {} /\ StoredBefore(q) = {}
        /\ original_text[p] = None /\ original_text[q] = None
        /\ Answers(p, SavedText) /\ Answers(q, SavedText)
        /\ StoredNow(p) = {Row(event[p].session_id,
                               event[p].original_utterance)}

\* ------------------------------------------------------------------------
\* Further properties of handler (specification Spec)
\* ------------------------------------------------------------------------

\* the text is one of the five handler answers with, the last being the
\* result of a recitation
BranchText(p, text) ==
    \/ text \in {GreetingText, ResetDoneText, SavedText, ApologyText}
    \/ /\ original_text[p] # None
       /\ text = response_text(
                     calculate_similarity(matcher, original_text[p],
                                          event[p].original_utterance),
                     original_text[p], event[p].original_utterance)

\* C14: every response handler returns, whichever branch built it, has
\* end_session false and version "1.0", carries the session_id and the
\* user_id of the event, and has a sequence of buttons; create_response
\* given no buttons answers with the empty sequence.
C14_ResponseShape ==
    /\ \A p \in Workers :
           outcome[p] = "returned" =>
               /\ response[p].end_session = FALSE
               /\ response[p].version = "1.0"
               /\ Has(event[p], "session_id") /\ Has(event[p], "user_id")
               /\ response[p].session_id = event[p].session_id
               /\ response[p].user_id = event[p].user_id
               /\ response[p].buttons
                      \in Seq({[title |-> ButtonTitle, hide |-> TRUE]})
               /\ BranchText(p, response[p].text)
    /\ \A s \in Sessions, u \in Users :
           LET built == create_response(ApologyText, {}, s, u)
           IN  /\ built.buttons = << >>
               /\ built.end_session = FALSE
               /\ built.version = "1.0"
               /\ built.session_id = s /\ built.user_id = u

\* the apology for an event without the "new" field: the branch that builds
\* its response in the except clause
C14_Witness ==
    \E p \in Workers :
        /\ outcome[p] = "returned"
        /\ ~Has(event[p], "new")
        /\ response[p].text = ApologyText
        /\ response[p].end_session = FALSE
        /\ response[p].session_id = event[p].session_id
        /\ response[p].user_id = event[p].user_id

\* ------------------------------------------------------------------------
\* Properties of the pure functions (specification SpecPure)
\* ------------------------------------------------------------------------

\* what clean_text returns: code points that are alphanumeric and unchanged
\* by lower(), in words separated by one space (U+0020) each, with no space
\* at either end
Cleaned(s) ==
    /\ \A i \in 1..Len(s) : IsAlnum(s[i]) \/ s[i] = 32
    /\ Lower(s) = s
    /\ s # << >> => s[1] # 32 /\ s[Len(s)] # 32
    /\ \A i \in 1..(Len(s) - 1) : ~(s[i] = 32 /\ s[i + 1] = 32)

\* C15: clean_text is idempotent and total: applied to its own result it
\* returns that result again, the empty string gives the empty string, and
\* every result holds only lowercase alphanumeric characters in words
\* separated by single spaces, with no leading or trailing space.
C15_CleanIdempotent ==
    applied.fn = "clean_text" =>
        /\ applied.text \in Seq(Nat)
        /\ Cleaned(applied.text)
        /\ applied.pass = 2 => applied.text = applied.s2
        /\ applied.s1 = << >> => applied.text = << >>

\* "A<tab>IO" cleaned twice is "a io"
C15_Witness ==
    /\ applied.fn = "clean_text"
    /\ applied.pass = 2
    /\ applied.s1 = <<65, 9, 1025>>
    /\ applied.text = <<97, 32, 1105>>

\* C16: calculate_similarity(s, s) is 100 for every non-empty s, so the
\* response to a recitation that equals the stored original reports 100%;
\* and every score is an integer from 0 to 100.
C16_SelfSimilarity ==
    /\ applied.fn \in {"calculate_similarity", "recitation"} =>
           /\ applied.score \in 0..100
           /\ applied.s1 = applied.s2 /\ applied.s1 # << >> =>
                  applied.score = 100
    /\ applied.fn = "recitation" /\ applied.s1 = applied.s2 =>
           applied.text = ResultHead \o <<49, 48, 48>> \o ResultMid
                            \o applied.s1 \o ResultTail \o applied.s2

\* the stored original "!" recited as "!": both clean to the empty string
C16_Witness ==
    /\ applied.fn = "recitation"
    /\ applied.s1 = <<33>> /\ applied.s2 = <<33>>
    /\ clean_text(applied.s1) = << >>
    /\ applied.score = 100

\* ------------------------------------------------------------------------
\* Properties of sequences of requests (specification Spec)
\* ------------------------------------------------------------------------

\* What handler does with an event on a table when no store step fails, as
\* a function of the two (and of the matcher the deployment has): whether it
\* returns or raises, the text of the response and the table afterwards.
Sequential(ev, rows, m) ==
    IF DOMAIN ev = Fields
    THEN [outcome |-> "returned", text |-> Alone(ev, rows, m).text,
          rows |-> Alone(ev, rows, m).rows]
    ELSE IF Has(ev, "original_utterance") /\ Has(ev, "session_id")
                                          /\ Has(ev, "user_id")
    THEN [outcome |-> "returned", text |-> ApologyText, rows |-> rows]
    ELSE [outcome |-> "raised", text |-> None, rows |-> rows]

\* C17: handler keeps nothing from one request to the next: whatever
\* requests were handled before, the outcome of a request, its response and
\* the table after it are those the function Sequential gives for the event
\* and the table the request found (no store step failing), so two runs
\* from equal tables over the same events answer alike and end with equal
\* tables.
C17_NoStateAcrossRequests ==
    \A p \in Workers :
        Finished(p) /\ NoFault(p) =>
            LET run == Sequential(event[p], before[p], matcher)
            IN  /\ outcome[p] = run.outcome
                /\ texts = run.rows
                /\ outcome[p] = "returned" =>
                       /\ response[p].text = run.text
                       /\ response[p] = create_response(run.text,
                                                        {ResetButton},
                                                        event[p].session_id,
                                                        event[p].user_id)

\* a recitation for a session whose text an earlier request saved, while the
\* table holds the text of another session too
C17_Witness ==
    \E p \in Workers :
        /\ Finished(p) /\ NoFault(p) /\ WellFormed(p)
        /\ Cardinality(before[p]) = 2
        /\ original_text[p] # None
        /\ Answers(p, response_text(
                          calculate_similarity(matcher, original_text[p],
                                               event[p].original_utterance),
                          original_text[p], event[p].original_utterance))
        /\ texts = before[p]

\* C18: a session's row goes from present to absent only in the delete step
\* of a request of that session that is not a new-session one and whose
\* lowercased utterance equals the reset keyword; no other step removes a
\* row (no expiry), and a request whose lowercased utterance differs from
\* the keyword leaves the session with a row if it had one.
C18_OnlyResetDeletes ==
    /\ [][\A s \in Sessions :
              RowsOf(texts, s) # {} /\ RowsOf(texts', s) = {} =>
                  \E p \in Workers :
                      /\ pc[p] = "delete" /\ pc'[p] = "done"
                      /\ WellFormed(p)
                      /\ event[p].session_id = s
                      /\ ~event[p].new
                      /\ Lower(event[p].original_utterance) = ResetKeyword]_vars
    /\ [](\A p \in Workers :
             /\ Finished(p) /\ WellFormed(p)
             /\ Lower(event[p].original_utterance) # ResetKeyword
             /\ StoredBefore(p) # {}
             => StoredNow(p) # {})

\* the keyword without its last letter, said while a text is stored: it is
\* scored as a recitation and the row stays
C18_Witness ==
    \E p \in Workers :
        /\ Finished(p) /\ WellFormed(p) /\ NoFault(p) /\ ~event[p].new
        /\ event[p].original_utterance =
               SubSeq(ResetKeyword, 1, Len(ResetKeyword) - 1)
        /\ StoredBefore(p) = {Row(event[p].session_id, ResetKeyword \o <<33>>)}
        /\ StoredNow(p) = StoredBefore(p)
        /\ outcome[p] = "returned"
        /\ response[p].text \notin {ResetDoneText, SavedText, ApologyText}

\* C19: ensure_table_exists runs before the new-session test: a request
\* whose three locals were read goes to the schema step first and nothing
\* is answered before it; a new-session request whose schema step failed is
\* answered with the apology, and the greeting is returned only when the
\* schema step succeeded (the table exists then).
C19_EnsureBeforeGreeting ==
    /\ [](\A p \in Workers :
             Finished(p) /\ WellFormed(p) /\ event[p].new =>
                 /\ faulted[p] \in {"none", "ensure"}
                 /\ faulted[p] = "ensure" => Answers(p, ApologyText)
                 /\ faulted[p] = "none" =>
                        Answers(p, GreetingText) /\ table_exists
                 /\ response[p].text = GreetingText => faulted[p] = "none")
    /\ [][\A p \in Workers :
              /\ pc[p] = "idle" /\ pc'[p] # "idle"
                     /\ BoundBy(event'[p]) = Locals => pc'[p] = "ensure"
              /\ outcome'[p] = "returned" /\ outcome[p] # "returned"
                     /\ response'[p].text = GreetingText => pc[p] = "ensure"]_vars

\* a new-session request whose schema step failed: the apology
C19_Witness ==
    \E p \in Workers :
        /\ Finished(p) /\ WellFormed(p) /\ event[p].new
        /\ faulted[p] = "ensure"
        /\ Answers(p, ApologyText)

\* C20: the table starting empty and written by handler only, no stored
\* original_text is the reset keyword when lowercased: the reset test comes
\* before the save.
C20_KeywordNeverStored ==
    \A r \in texts : Lower(r.original_text) # ResetKeyword

\* the nearest a stored text comes: the keyword followed by "!" was saved
\* (it is the keyword when cleaned), the keyword in capitals was not
C20_Witness ==
    \E p \in Workers :
        /\ Finished(p) /\ WellFormed(p) /\ NoFault(p)
        /\ event[p].original_utterance = ResetKeyword \o <<33>>
        /\ Answers(p, SavedText)
        /\ Row(event[p].session_id, ResetKeyword \o <<33>>) \in texts
        /\ clean_text(event[p].original_utterance) = ResetKeyword

====
